---- MODULE Spec2Model ----
(***************************************************************************)
(* Model of the GitHub -> Webex webhook bot (app.js, here                  *)
(* src/unnamed/part_000): the express pipeline of POST /github, made of    *)
(* the bodyParser.json middleware, the JSON error middleware and the       *)
(* async route handler with its single await on webex.messages.create.     *)
(*                                                                         *)
(* Scope: the model follows a request until the route handler returns,     *)
(* awaits, or throws.  What express / node do with the rejected promise    *)
(* of a handler that threw is library behaviour outside the repository;    *)
(* the model records the fault and that the handler sent nothing.          *)
(***************************************************************************)
EXTENDS Integers, Sequences, FiniteSets, TLC

(* ---------------------------- bounds ----------------------------------- *)
MaxRequests == 2
MaxCommits == 2

(* ---------------------- process-wide configuration --------------------- *)
Limit == 10485760
GITHUB_SECRET == "topsecret"
ROOM_ID == "room-1"

Undefined == "<undefined>"

Requests == 1 .. MaxRequests

(* ------------------------------ payloads ------------------------------- *)
Commits(n) == [i \in 1 .. n |-> "c" \o ToString(i)]

EmptyPayload == [x \in {} |-> Undefined]

PushPayloads ==
    UNION { { [commits |-> Commits(n), ref |-> "refs/heads/main",
               pusher |-> [name |-> "alice"], compare |-> "u"],
              [commits |-> Commits(n), ref |-> "refs/heads/x", compare |-> "u"],
              [commits |-> Commits(n), ref |-> "refs/heads/x",
               pusher |-> [email |-> "a@x"], compare |-> "u"],
              [commits |-> Commits(n), ref |-> "refs/heads/x",
               pusher |-> [name |-> ""], compare |-> "u"] } : n \in 0 .. MaxCommits }

PullRequestFull ==
    [action |-> "opened", number |-> 7,
     pull_request |-> [title |-> "Fix", html_url |-> "h"],
     sender |-> [login |-> "bob"]]

PullRequestPayloads ==
    { PullRequestFull,
      [action |-> "opened", number |-> 7, sender |-> [login |-> "bob"]],
      [action |-> "opened", number |-> 7,
       pull_request |-> [title |-> "Fix", html_url |-> "h"]],
      [action |-> "closed", pull_request |-> [html_url |-> "h"],
       sender |-> [login |-> "bob"]] }

IssueFull ==
    [action |-> "opened",
     issue |-> [number |-> 3, title |-> "Bug", html_url |-> "i"],
     sender |-> [login |-> "carol"]]

IssueNoIssue == [action |-> "opened", sender |-> [login |-> "carol"]]

IssuePayloads ==
    { IssueFull, IssueNoIssue,
      [action |-> "opened",
       issue |-> [number |-> 3, title |-> "Bug", html_url |-> "i"]] }

Payloads == PushPayloads \cup PullRequestPayloads \cup IssuePayloads \cup {EmptyPayload}


(* --------------------------- bodies on the wire ------------------------ *)
(* A body as sent: the JSON value its bytes denote, whether the bytes are  *)
(* syntactically valid JSON, and their length in bytes.                    *)
WireBody(value, wellFormed, length) ==
    [json |-> value, wellFormed |-> wellFormed, length |-> length]

SmallBodies == { WireBody(p, TRUE, 64) : p \in Payloads }
MalformedBody == WireBody(EmptyPayload, FALSE, 64)
AtLimitBody == WireBody(IssueFull, TRUE, Limit)
OverLimitBody == WireBody(IssueFull, TRUE, Limit + 1)

WireBodies == SmallBodies \cup {MalformedBody, AtLimitBody, OverLimitBody}

RECURSIVE SetToSeq(_)
SetToSeq(S) ==
    IF S = {} THEN <<>>
    ELSE LET e == CHOOSE e \in S : TRUE IN <<e>> \o SetToSeq(S \ {e})

BodySeq == SetToSeq(WireBodies)
BodyIndex(buf) == CHOOSE i \in 1 .. Len(BodySeq) : BodySeq[i] = buf

(* ------------------------------- crypto -------------------------------- *)
Keys == <<GITHUB_SECRET, "guess">>
KeyIndex(key) == CHOOSE i \in 1 .. Len(Keys) : Keys[i] = key

HexDigits == <<"0", "1", "2", "3", "4", "5", "6", "7",
               "8", "9", "a", "b", "c", "d", "e", "f">>
HexByte(n) == HexDigits[(n \div 16) + 1] \o HexDigits[(n % 16) + 1]

(* hmac.digest('hex'): a keyed digest of fixed width, distinct for         *)
(* distinct (key, data) pairs of the model.                                *)
HmacSha256Hex(key, data) == HexByte(KeyIndex(key)) \o HexByte(BodyIndex(data))

ExpectedSig(rawBody) == "sha256=" \o HmacSha256Hex(GITHUB_SECRET, rawBody)

(* crypto.timingSafeEqual(Buffer.from(a), Buffer.from(b)): throws a        *)
(* RangeError when the byte lengths differ, else compares the bytes.       *)
TimingSafeEqual(a, b) ==
    IF Len(a) # Len(b) THEN [threw |-> TRUE, equal |-> FALSE]
    ELSE [threw |-> FALSE, equal |-> (a = b)]

(* ------------------------------ requests ------------------------------- *)
EventTypes == {"push", "pull_request", "issues", "deployment"}

BaseHeaders == [x \in {"content-type"} |-> "application/json"]

EventHeaders == { [x \in {} |-> ""] } \cup { [x \in {"x-github-event"} |-> e] : e \in EventTypes }

(* What a sender may put in x-hub-signature-256 for a body: nothing, an    *)
(* empty value, the right value, a value made with a wrong key (same       *)
(* length), and the bare digest without the "sha256=" prefix (shorter).    *)
SigValues(buf) ==
    { "", ExpectedSig(buf), "sha256=" \o HmacSha256Hex("guess", buf),
      HmacSha256Hex(GITHUB_SECRET, buf) }

SigHeaders(buf) ==
    { [x \in {} |-> ""] } \cup { [x \in {"x-hub-signature-256"} |-> s] : s \in SigValues(buf) }

RequestsWith(bodies, events) ==
    UNION { { [headers |-> BaseHeaders @@ eh @@ sh, wire |-> buf] :
                eh \in { h \in EventHeaders : \A k \in DOMAIN h : h[k] \in events },
                sh \in SigHeaders(buf) } : buf \in bodies }

Inputs == RequestsWith(WireBodies, EventTypes)

ConcInputs ==
    { q \in RequestsWith({WireBody(IssueFull, TRUE, 64), WireBody(IssueNoIssue, TRUE, 64),
                          MalformedBody}, {"issues", "deployment"}) :
        "x-github-event" \in DOMAIN q.headers }

NoRequest == [x \in {} |-> Undefined]

Header(q, name) == IF name \in DOMAIN q.headers THEN q.headers[name] ELSE Undefined

(* `${v}` of a possibly missing property *)
Str(obj, name) == IF name \in DOMAIN obj THEN obj[name] ELSE "undefined"
NumStr(obj, name) == IF name \in DOMAIN obj THEN ToString(obj[name]) ELSE "undefined"
Has(obj, name) == name \in DOMAIN obj

(* !v for a header value *)
Falsy(v) == v = Undefined \/ v = ""

(* ---------------------------- event formatter -------------------------- *)
(* case 'push' *)
CommitCount(payload) == IF Has(payload, "commits") THEN Len(payload.commits) ELSE 0

PusherNameNoFallback(payload) ==
    IF Has(payload, "pusher") THEN Str(payload.pusher, "name") ELSE "undefined"

PusherName(payload) ==
    IF Has(payload, "pusher") /\ Has(payload.pusher, "name") /\ payload.pusher.name # ""
    THEN payload.pusher.name ELSE "unknown"

PushMessage(payload) ==
    "**Push Event**: " \o ToString(CommitCount(payload)) \o " commits pushed to "
        \o Str(payload, "ref") \o " by " \o PusherName(payload)
        \o ". Compare: " \o Str(payload, "compare")

(* case 'pull_request': reading .title of a missing pull_request, or       *)
(* .login of a missing sender, throws a TypeError                          *)
PullRequestThrows(payload) == ~Has(payload, "pull_request") \/ ~Has(payload, "sender")

PullRequestMessage(payload) ==
    "**Pull Request " \o Str(payload, "action") \o "**: #" \o NumStr(payload, "number")
        \o " \"" \o Str(payload.pull_request, "title") \o "\" by "
        \o Str(payload.sender, "login") \o ". URL: " \o Str(payload.pull_request, "html_url")

(* case 'issues' *)
IssueThrows(payload) == ~Has(payload, "issue") \/ ~Has(payload, "sender")

IssueMessage(payload) ==
    "**Issue " \o Str(payload, "action") \o "**: #" \o NumStr(payload.issue, "number")
        \o " \"" \o Str(payload.issue, "title") \o "\" by "
        \o Str(payload.sender, "login") \o ". URL: " \o Str(payload.issue, "html_url")

Supported == {"push", "pull_request", "issues"}

(* variants of the switch: one that guesses the variant from the payload   *)
(* shape, one that acknowledges an incomplete event instead of throwing    *)
SwitchEventByShape(event, payload) ==
    CASE event = "push" \/ (event \notin Supported /\ Has(payload, "commits")) ->
            [branch |-> "push", threw |-> FALSE, message |-> PushMessage(payload)]
      [] event = "pull_request" ->
            IF PullRequestThrows(payload)
            THEN [branch |-> "pull_request", threw |-> TRUE, message |-> ""]
            ELSE [branch |-> "pull_request", threw |-> FALSE,
                  message |-> PullRequestMessage(payload)]
      [] event = "issues" ->
            IF IssueThrows(payload)
            THEN [branch |-> "issues", threw |-> TRUE, message |-> ""]
            ELSE [branch |-> "issues", threw |-> FALSE, message |-> IssueMessage(payload)]
      [] OTHER -> [branch |-> "default", threw |-> FALSE, message |-> ""]

SwitchEventSkipIncomplete(event, payload) ==
    CASE event = "push" ->
            [branch |-> "push", threw |-> FALSE, message |-> PushMessage(payload)]
      [] event = "pull_request" /\ ~PullRequestThrows(payload) ->
            [branch |-> "pull_request", threw |-> FALSE,
             message |-> PullRequestMessage(payload)]
      [] event = "issues" /\ ~IssueThrows(payload) ->
            [branch |-> "issues", threw |-> FALSE, message |-> IssueMessage(payload)]
      [] OTHER -> [branch |-> "default", threw |-> FALSE, message |-> ""]

(* switch (event): what the cases do with the payload *)
SwitchEvent(event, payload) ==
    CASE event = "push" ->
            [branch |-> "push", threw |-> FALSE, message |-> PushMessage(payload)]
      [] event = "pull_request" ->
            IF PullRequestThrows(payload)
            THEN [branch |-> "pull_request", threw |-> TRUE, message |-> ""]
            ELSE [branch |-> "pull_request", threw |-> FALSE,
                  message |-> PullRequestMessage(payload)]
      [] event = "issues" ->
            IF IssueThrows(payload)
            THEN [branch |-> "issues", threw |-> TRUE, message |-> ""]
            ELSE [branch |-> "issues", threw |-> FALSE, message |-> IssueMessage(payload)]
      [] OTHER -> [branch |-> "default", threw |-> FALSE, message |-> ""]

(* ------------------------------ responses ------------------------------ *)
Send(status, body) == [status |-> status, type |-> "text", body |-> body]
Json(status, body) == [status |-> status, type |-> "json", body |-> body]

SignatureMissing == Send(401, "Signature missing")
InvalidSignature == Send(401, "Invalid signature")
EventReceived == Send(200, "Event received")
EventProcessed == Send(200, "Event processed")
InvalidJson == Json(400, "{\"error\":\"Invalid JSON payload\"}")

(* ------------------- the route handler up to its await ----------------- *)
(* What one outcome of the synchronous part records: the log lines         *)
(* written, the calls to crypto.createHmac, how it ended ("respond",       *)
(* "throw" or "await"), the responses sent, the fault, and `message`.      *)
Outcome(log, hmacCalls, kind, sent, fault, message) ==
    [log |-> log, hmacCalls |-> hmacCalls, kind |-> kind, sent |-> sent,
     fault |-> fault, message |-> message]

Dispatch(event, payload, log) ==
    LET sw == SwitchEvent(event, payload)
        log2 == log \o <<"validated", "processing">>
    IN  IF sw.threw
        THEN Outcome(log2, 1, "throw", <<>>, "TypeError", "")
        ELSE IF sw.branch = "default"
        THEN Outcome(log2 \o <<"unhandled">>, 1, "respond", <<EventReceived>>, "none", "")
        ELSE Outcome(log2 \o <<sw.branch, "sending">>, 1, "await", <<>>, "none", sw.message)

(* variant: the event type is looked at before the signature *)
HandlerSyncEventFirst(q) ==
    LET event == Header(q, "x-github-event")
        sigHeader == Header(q, "x-hub-signature-256")
        log == <<"incoming">>
    IN  IF event \notin Supported
        THEN Outcome(log \o <<"unhandled">>, 0, "respond", <<EventReceived>>, "none", "")
        ELSE IF Falsy(sigHeader)
        THEN Outcome(log \o <<"missing-signature">>, 0, "respond",
                     <<SignatureMissing>>, "none", "")
        ELSE IF ~Has(q, "rawBody")
        THEN Outcome(log, 1, "throw", <<>>, "TypeError", "")
        ELSE LET cmp == TimingSafeEqual(sigHeader, ExpectedSig(q.rawBody))
             IN  IF cmp.threw
                 THEN Outcome(log, 1, "throw", <<>>, "RangeError", "")
                 ELSE IF ~cmp.equal
                 THEN Outcome(log \o <<"invalid-signature">>, 1, "respond",
                              <<InvalidSignature>>, "none", "")
                 ELSE Dispatch(event, q.body, log)

HandlerSync(q) ==
    LET event == Header(q, "x-github-event")
        sigHeader == Header(q, "x-hub-signature-256")
        log == <<"incoming">>
    IN  IF Falsy(sigHeader)
        THEN Outcome(log \o <<"missing-signature">>, 0, "respond",
                     <<SignatureMissing>>, "none", "")
        ELSE IF ~Has(q, "rawBody")
        THEN Outcome(log, 1, "throw", <<>>, "TypeError", "")
        ELSE LET cmp == TimingSafeEqual(sigHeader, ExpectedSig(q.rawBody))
             IN  IF cmp.threw
                 THEN Outcome(log, 1, "throw", <<>>, "RangeError", "")
                 ELSE IF ~cmp.equal
                 THEN Outcome(log \o <<"invalid-signature">>, 1, "respond",
                              <<InvalidSignature>>, "none", "")
                 ELSE Dispatch(event, q.body, log)

(* -------------------------------- state -------------------------------- *)
VARIABLES pc, req, err, res, log, hmacCalls, message, relayed, relay, fault

vars == <<pc, req, err, res, log, hmacCalls, message, relayed, relay, fault>>

Init ==
    /\ pc = [r \in Requests |-> "idle"]
    /\ req = [r \in Requests |-> NoRequest]
    /\ err = [r \in Requests |-> "none"]
    /\ res = [r \in Requests |-> <<>>]
    /\ log = [r \in Requests |-> <<>>]
    /\ hmacCalls = [r \in Requests |-> 0]
    /\ message = [r \in Requests |-> ""]
    /\ relayed = [r \in Requests |-> <<>>]
    /\ relay = [r \in Requests |-> "none"]
    /\ fault = [r \in Requests |-> "none"]

(* A POST /github arrives: headers are known, the body is still a stream.  *)
Receive(r, inputs) ==
    /\ pc[r] = "idle"
    /\ \E q \in inputs : req' = [req EXCEPT ![r] = q]
    /\ pc' = [pc EXCEPT ![r] = "bodyParser"]
    /\ UNCHANGED <<err, res, log, hmacCalls, message, relayed, relay, fault>>

(* bodyParser.json({verify, limit: '10mb'}): over the limit -> error 413   *)
(* before verify runs; else verify stores req.rawBody, then the bytes are  *)
(* parsed: a SyntaxError (status 400) or req.body.                         *)
BodyParserJson(r) ==
    /\ pc[r] = "bodyParser"
    /\ LET buf == req[r].wire
       IN  IF buf.length > Limit
           THEN /\ req' = [req EXCEPT ![r] = [body |-> EmptyPayload] @@ @]
                /\ err' = [err EXCEPT ![r] = "PayloadTooLargeError"]
                /\ pc' = [pc EXCEPT ![r] = "errorMiddleware"]
           ELSE IF ~buf.wellFormed
           THEN /\ req' = [req EXCEPT ![r] = [rawBody |-> buf, body |-> EmptyPayload] @@ @]
                /\ err' = [err EXCEPT ![r] = "SyntaxError"]
                /\ pc' = [pc EXCEPT ![r] = "errorMiddleware"]
           ELSE /\ req' = [req EXCEPT ![r] = [rawBody |-> buf, body |-> buf.json] @@ @]
                /\ err' = err
                /\ pc' = [pc EXCEPT ![r] = "route"]
    /\ UNCHANGED <<res, log, hmacCalls, message, relayed, relay, fault>>

(* variant: the error middleware passes every error on with next() *)
JsonErrorMiddlewareAlwaysNext(r) ==
    /\ pc[r] = "errorMiddleware"
    /\ err' = [err EXCEPT ![r] = "none"]
    /\ pc' = [pc EXCEPT ![r] = "route"]
    /\ UNCHANGED <<log, res, req, hmacCalls, message, relayed, relay, fault>>

(* app.use((error, req, res, next) => ...): answers a JSON syntax error    *)
(* with 400; for any other error calls next() WITHOUT the error, so        *)
(* express goes on to the routes.                                          *)
JsonErrorMiddleware(r) ==
    /\ pc[r] = "errorMiddleware"
    /\ IF err[r] = "SyntaxError"
       THEN /\ log' = [log EXCEPT ![r] = Append(@, "json-error")]
            /\ res' = [res EXCEPT ![r] = Append(@, InvalidJson)]
            /\ pc' = [pc EXCEPT ![r] = "done"]
            /\ err' = err
       ELSE /\ err' = [err EXCEPT ![r] = "none"]
            /\ pc' = [pc EXCEPT ![r] = "route"]
            /\ UNCHANGED <<log, res>>
    /\ UNCHANGED <<req, hmacCalls, message, relayed, relay, fault>>

(* variant: a process-wide record of messages already relayed; a request   *)
(* whose message another request has relayed skips its own relay call      *)
GithubHandlerDedupe(r) ==
    /\ pc[r] = "route"
    /\ LET o == HandlerSync(req[r])
           seen == \E s \in Requests \ {r} : \E i \in 1 .. Len(relayed[s]) :
                       relayed[s][i].markdown = o.message
       IN  /\ log' = [log EXCEPT ![r] = @ \o o.log]
           /\ hmacCalls' = [hmacCalls EXCEPT ![r] = @ + o.hmacCalls]
           /\ fault' = [fault EXCEPT ![r] = o.fault]
           /\ message' = [message EXCEPT ![r] = o.message]
           /\ IF o.kind = "await" /\ ~seen
              THEN /\ relayed' = [relayed EXCEPT ![r] =
                          Append(@, [roomId |-> ROOM_ID, markdown |-> o.message])]
                   /\ relay' = [relay EXCEPT ![r] = "pending"]
                   /\ pc' = [pc EXCEPT ![r] = "awaitRelay"]
                   /\ res' = [res EXCEPT ![r] = @ \o o.sent]
              ELSE IF o.kind = "await"
              THEN /\ UNCHANGED <<relayed, relay>>
                   /\ res' = [res EXCEPT ![r] = Append(@, EventProcessed)]
                   /\ pc' = [pc EXCEPT ![r] = "done"]
              ELSE /\ UNCHANGED <<relayed, relay>>
                   /\ res' = [res EXCEPT ![r] = @ \o o.sent]
                   /\ pc' = [pc EXCEPT ![r] = IF o.kind = "throw" THEN "faulted" ELSE "done"]
    /\ UNCHANGED <<req, err>>

(* app.post('/github', async (req, res) => ...) from entry to the first    *)
(* return, throw or await.                                                 *)
GithubHandler(r) ==
    /\ pc[r] = "route"
    /\ LET o == HandlerSync(req[r])
       IN  /\ log' = [log EXCEPT ![r] = @ \o o.log]
           /\ hmacCalls' = [hmacCalls EXCEPT ![r] = @ + o.hmacCalls]
           /\ res' = [res EXCEPT ![r] = @ \o o.sent]
           /\ fault' = [fault EXCEPT ![r] = o.fault]
           /\ message' = [message EXCEPT ![r] = o.message]
           /\ IF o.kind = "await"
              THEN /\ relayed' = [relayed EXCEPT ![r] =
                          Append(@, [roomId |-> ROOM_ID, markdown |-> o.message])]
                   /\ relay' = [relay EXCEPT ![r] = "pending"]
                   /\ pc' = [pc EXCEPT ![r] = "awaitRelay"]
              ELSE /\ UNCHANGED <<relayed, relay>>
                   /\ pc' = [pc EXCEPT ![r] = IF o.kind = "throw" THEN "faulted" ELSE "done"]
    /\ UNCHANGED <<req, err>>

(* the rest of the handler after `await webex.messages.create(...)`        *)
AfterRelay(r, outcome, line) ==
    /\ pc[r] = "awaitRelay"
    /\ relay' = [relay EXCEPT ![r] = outcome]
    /\ log' = [log EXCEPT ![r] = @ \o <<line, "completed">>]
    /\ res' = [res EXCEPT ![r] = Append(@, EventProcessed)]
    /\ pc' = [pc EXCEPT ![r] = "done"]
    /\ UNCHANGED <<req, err, hmacCalls, message, relayed, fault>>

RelayResolved(r) == AfterRelay(r, "resolved", "posted")

(* variant: no catch around the relay call, the rejection escapes *)
RelayRejectedRethrows(r) ==
    /\ pc[r] = "awaitRelay"
    /\ relay' = [relay EXCEPT ![r] = "rejected"]
    /\ fault' = [fault EXCEPT ![r] = "Error"]
    /\ pc' = [pc EXCEPT ![r] = "faulted"]
    /\ UNCHANGED <<req, err, res, log, hmacCalls, message, relayed>>

RelayRejected(r) == AfterRelay(r, "rejected", "relay-error")

Step(r, inputs) ==
    \/ Receive(r, inputs)
    \/ BodyParserJson(r)
    \/ JsonErrorMiddleware(r)
    \/ GithubHandler(r)
    \/ RelayResolved(r)
    \/ RelayRejected(r)

(* one request, every input *)
Next == Step(1, Inputs)
Spec == Init /\ [][Next]_vars

(* concurrent requests, representative inputs *)
ConcNext == \E r \in Requests : Step(r, ConcInputs)
ConcSpec == Init /\ [][ConcNext]_vars

(* the event loop runs every ready callback, and the relay call settles *)
Fairness ==
    /\ WF_vars(BodyParserJson(1))
    /\ WF_vars(JsonErrorMiddleware(1))
    /\ WF_vars(GithubHandler(1))
    /\ WF_vars(RelayResolved(1) \/ RelayRejected(1))
LiveSpec == Init /\ [][Next]_vars /\ Fairness

(* ======================= properties of the pipeline ==================== *)
Arrived(r) == pc[r] # "idle"
Terminal(r) == pc[r] \in {"done", "faulted"}
InLog(r, line) == \E i \in 1 .. Len(log[r]) : log[r][i] = line
Entered(r) == InLog(r, "incoming")
EventOf(r) == Header(req[r], "x-github-event")
SigOf(r) == Header(req[r], "x-hub-signature-256")
HasSig(r) == "x-hub-signature-256" \in DOMAIN req[r].headers
OverLimit(r) == req[r].wire.length > Limit
Malformed(r) == ~OverLimit(r) /\ ~req[r].wire.wellFormed
ParsedOk(r) == ~OverLimit(r) /\ req[r].wire.wellFormed
ValidSig(r) == HasSig(r) /\ SigOf(r) = "sha256=" \o HmacSha256Hex(GITHUB_SECRET, req[r].wire)
PayloadOf(r) == req[r].wire.json

(* C1: a request whose signature header is present (and not empty) but     *)
(* differs from "sha256=" + hex(HMAC(secret, rawBody)), whatever its       *)
(* length, is answered 401 "Invalid signature" without a fault and without *)
(* a relay call.                                                           *)
C1_MismatchGets401 ==
    \A r \in Requests :
        (Arrived(r) /\ Terminal(r) /\ ParsedOk(r) /\ HasSig(r) /\ SigOf(r) # ""
            /\ ~ValidSig(r))
        => (fault[r] = "none" /\ res[r] = <<InvalidSignature>> /\ relayed[r] = <<>>)

(* C2: a validly signed request of a supported event type carrying the     *)
(* objects its template reads makes exactly one relay call and is answered *)
(* 200 "Event processed", whether the relay call resolves or rejects; no   *)
(* second relay call is ever made.                                         *)
TemplateFieldsPresent(r) ==
    /\ EventOf(r) = "pull_request"
          => ("pull_request" \in DOMAIN PayloadOf(r) /\ "sender" \in DOMAIN PayloadOf(r))
    /\ EventOf(r) = "issues"
          => ("issue" \in DOMAIN PayloadOf(r) /\ "sender" \in DOMAIN PayloadOf(r))

ValidSupported(r) ==
    Arrived(r) /\ ParsedOk(r) /\ ValidSig(r) /\ EventOf(r) \in {"push", "pull_request", "issues"}
        /\ TemplateFieldsPresent(r)

C2_OneRelayThen200 ==
    \A r \in Requests :
        ValidSupported(r)
        => /\ Len(relayed[r]) <= 1
           /\ pc[r] # "faulted"
           /\ pc[r] = "awaitRelay" => (Len(relayed[r]) = 1 /\ res[r] = <<>>)
           /\ pc[r] = "done" => /\ Len(relayed[r]) = 1
                                /\ relay[r] \in {"resolved", "rejected"}
                                /\ res[r] = <<EventProcessed>>

C2_Witness ==
    \E r \in Requests :
        ValidSupported(r) /\ pc[r] = "done" /\ relay[r] = "rejected"
            /\ EventOf(r) = "issues" /\ res[r] = <<EventProcessed>>

(* C3: a validly signed request whose x-github-event header is not push,   *)
(* pull_request or issues (or is absent) is answered 200 "Event received"  *)
(* and never relayed, whatever the payload; the default branch is taken    *)
(* exactly when the header is none of the three.                           *)
C3_UnsupportedAcknowledged ==
    \A r \in Requests :
        (Arrived(r) /\ ParsedOk(r) /\ ValidSig(r))
        => /\ EventOf(r) \notin {"push", "pull_request", "issues"}
                => /\ relayed[r] = <<>>
                   /\ pc[r] \notin {"awaitRelay", "faulted"}
                   /\ pc[r] = "done" => res[r] = <<EventReceived>>
           /\ InLog(r, "validated")
                => (InLog(r, "unhandled")
                        <=> EventOf(r) \notin {"push", "pull_request", "issues"})

C3_Witness ==
    \E r \in Requests :
        /\ pc[r] = "done" /\ ParsedOk(r) /\ ValidSig(r)
        /\ EventOf(r) = "deployment" /\ "commits" \in DOMAIN PayloadOf(r)
        /\ res[r] = <<EventReceived>> /\ relayed[r] = <<>>

(* C4: for a request without signature header, whatever its event type    *)
(* and body, the route handler answers 401 "Signature missing": no HMAC is *)
(* computed, the event type is not dispatched on and nothing is relayed    *)
(* (an unsupported event type without signature gets 401, not 200).        *)
MissingSignatureOutcome(r) ==
    /\ res[r] = <<SignatureMissing>>
    /\ hmacCalls[r] = 0
    /\ ~InLog(r, "processing")
    /\ relayed[r] = <<>>
    /\ fault[r] = "none"

C5_MalformedJson400 ==
    \A r \in Requests :
        (Arrived(r) /\ Malformed(r))
        => /\ ~Entered(r) /\ hmacCalls[r] = 0 /\ relayed[r] = <<>>
           /\ pc[r] \in {"bodyParser", "errorMiddleware", "done"}
           /\ pc[r] = "done" => res[r] = <<InvalidJson>>
           /\ pc[r] # "done" => res[r] = <<>>

C5_Witness ==
    \E r \in Requests :
        pc[r] = "done" /\ Malformed(r) /\ ValidSig(r) /\ res[r] = <<InvalidJson>>

(* C6: a request whose body is longer than the 10 MB limit ends with an    *)
(* error response and the route handler never runs for it.                 *)
C6_OverLimitRejected ==
    \A r \in Requests :
        (Arrived(r) /\ OverLimit(r))
        => /\ ~Entered(r)
           /\ pc[r] # "faulted"
           /\ pc[r] = "done" => (Len(res[r]) = 1 /\ res[r][1].status >= 400)

(* C7 as stated: the push message handed to the relay is                   *)
(* "Push Event: {n} commits pushed to {ref} by {p}. Compare: {compare}",   *)
(* p being pusher.name, or "unknown" when the pusher or its name is absent *)
PushTemplateInputs(r) ==
    /\ Arrived(r) /\ EventOf(r) = "push" /\ relayed[r] # <<>>
    /\ {"commits", "ref", "compare"} \subseteq DOMAIN PayloadOf(r)

NameOrUnknown(payload) ==
    IF "pusher" \in DOMAIN payload /\ "name" \in DOMAIN payload.pusher
    THEN payload.pusher.name ELSE "unknown"

C7_Original ==
    \A r \in Requests :
        PushTemplateInputs(r)
        => relayed[r][1].markdown =
              "Push Event: " \o ToString(Len(PayloadOf(r).commits)) \o " commits pushed to "
                \o PayloadOf(r).ref \o " by " \o NameOrUnknown(PayloadOf(r))
                \o ". Compare: " \o PayloadOf(r).compare

(* C7 amended: the push message handed to the relay is                     *)
(* "**Push Event**: {n} commits pushed to {ref} by {p}. Compare:           *)
(* {compare}", n the number of entries of payload.commits and p            *)
(* pusher.name, or "unknown" when the pusher or its name is absent or the  *)
(* name is empty.                                                          *)
NameOrUnknownIfEmpty(payload) ==
    IF NameOrUnknown(payload) = "" THEN "unknown" ELSE NameOrUnknown(payload)

C7_PushMessage ==
    \A r \in Requests :
        PushTemplateInputs(r)
        => relayed[r] = << [roomId |-> ROOM_ID, markdown |->
              "**Push Event**: " \o ToString(Len(PayloadOf(r).commits)) \o " commits pushed to "
                \o PayloadOf(r).ref \o " by " \o NameOrUnknownIfEmpty(PayloadOf(r))
                \o ". Compare: " \o PayloadOf(r).compare] >>

C7_Witness ==
    \E r \in Requests :
        /\ PushTemplateInputs(r) /\ Len(PayloadOf(r).commits) = 2
        /\ relayed[r][1].markdown
              = "**Push Event**: 2 commits pushed to refs/heads/main by alice. Compare: u"

(* C8: under any interleaving of concurrent requests, each request has     *)
(* caused at most one relay call, and none unless its signature matched    *)
(* and its event type is push, pull_request or issues; what a finished     *)
(* request got (responses, relay calls, fault) depends on the request      *)
(* alone: two finished requests with the same content got the same.        *)
Finished(r) == Arrived(r) /\ Terminal(r)

C8_IsolatedRequests ==
    /\ \A r \in Requests :
          /\ Len(relayed[r]) <= 1
          /\ relayed[r] # <<>>
                => (ValidSig(r) /\ EventOf(r) \in {"push", "pull_request", "issues"})
    /\ \A r, s \in Requests :
          (Finished(r) /\ Finished(s) /\ req[r] = req[s])
          => (res[r] = res[s] /\ relayed[r] = relayed[s] /\ fault[r] = fault[s])

C8_Witness ==
    \E r, s \in Requests :
        /\ r # s /\ req[r] = req[s]
        /\ pc[r] = "done" /\ relay[r] = "rejected" /\ Len(relayed[r]) = 1
        /\ pc[s] = "awaitRelay" /\ Len(relayed[s]) = 1

(* C9: once a request has passed signature verification and JSON parsing,  *)
(* the sender eventually receives a 200 response, whatever the event type  *)
(* and payload, provided a relay call made settles; and no response is     *)
(* sent while the relay call is pending.                                   *)
Got200(r) == res[r] # <<>> /\ res[r][1].status = 200

C9_Eventually200 ==
    /\ [](\A r \in Requests : pc[r] = "awaitRelay" => res[r] = <<>>)
    /\ \A r \in Requests : InLog(r, "validated") ~> Got200(r)

(* C10: a validly signed pull_request event without pull_request object or *)
(* without sender, or issues event without issue object or without sender, *)
(* faults while the message is built: no relay call is made and the        *)
(* handler sends no response.                                              *)
LacksNestedObject(r) ==
    \/ EventOf(r) = "pull_request"
          /\ ("pull_request" \notin DOMAIN PayloadOf(r) \/ "sender" \notin DOMAIN PayloadOf(r))
    \/ EventOf(r) = "issues"
          /\ ("issue" \notin DOMAIN PayloadOf(r) \/ "sender" \notin DOMAIN PayloadOf(r))

C10_IncompleteEventFaults ==
    \A r \in Requests :
        (Arrived(r) /\ ParsedOk(r) /\ ValidSig(r) /\ LacksNestedObject(r))
        => /\ relayed[r] = <<>> /\ res[r] = <<>>
           /\ pc[r] \in {"bodyParser", "route", "faulted"}
           /\ Entered(r) => (pc[r] = "faulted" /\ fault[r] = "TypeError")

C10_Witness ==
    \E r \in Requests :
        /\ pc[r] = "faulted" /\ ValidSig(r) /\ EventOf(r) = "pull_request"
        /\ "pull_request" \notin DOMAIN PayloadOf(r)
        /\ InLog(r, "validated") /\ res[r] = <<>> /\ relayed[r] = <<>>

====
